---- MODULE Spec2Model ----
(***************************************************************************)
(* Backup / restore subsystem of simple-shell.                             *)
(*                                                                         *)
(* The filesystem below the user's home directory is a function from      *)
(* paths (sequences of names, <<>> being home itself) to nodes (a file     *)
(* with its content, or a directory).  The shutil / pathlib primitives    *)
(* used by the code are operators on that function which return the new    *)
(* filesystem together with a flag telling whether the call raised.        *)
(***************************************************************************)
EXTENDS Integers, Sequences, FiniteSets, TLC

VARIABLES
    fs,        \* the filesystem under home: path -> node
    now,       \* wall clock, in seconds
    managers,  \* backup_timestamp of the BackupManager of the running program
    rs,        \* position of the restore_backup call in progress
    ret,       \* result of the last finished BackupManager call
    pre,       \* filesystem when the last BackupManager call began
    budget,    \* operations still allowed (bounds the exploration)
    inst,      \* SimpleShellInstaller.setup_shell_environment run
    proto      \* prototype BackupManager: result of its last call

vars == <<fs, now, managers, rs, ret, pre, budget, inst, proto>>

----------------------------------------------------------------------------
(* Bounds of the exploration *)

MaxClock == 1
MaxOps == 2
MaxKeep == 3
MaxFail == 1

(* '%Y%m%d-%H%M%S': the minute and second fields of the timestamp *)
SecPerMin == 60

----------------------------------------------------------------------------
(* Names and paths *)

N(s) == [kind |-> "plain", b |-> s, ts |-> <<0, 0>>, pr |-> 0]

(* f'{backup_name}-backup-{timestamp}' *)
Arch(cat, t) == [kind |-> "archive", b |-> cat, ts |-> t, pr |-> 0]

(* f'{item.name}.pre-restore' *)
PreRestoreName(n) == [n EXCEPT !.pr = @ + 1]

(* datetime.now().strftime("%Y%m%d-%H%M%S"), minute and second fields *)
Strftime(t) == <<t \div SecPerMin, t % SecPerMin>>

Zshrc == N(".zshrc")
Bashrc == N(".bashrc")
OhMyZsh == N(".oh-my-zsh")
Config == N(".config")
Starship == N("starship.toml")
Manifest == N("backup_manifest.txt")
Inner == N("inner")
Extra == N("extra")

Home == << >>
ConfigDir == <<Config>>

Data == {"A", "B"}

File(d) == [k |-> "file", txt |-> d, at |-> 0, list |-> << >>]
Dir == [k |-> "dir", txt |-> "", at |-> 0, list |-> << >>]
ManifestBlank(t, items) == [k |-> "file", txt |-> "manifest", at |-> t, list |-> << >>]
ManifestFile(t, items) == [k |-> "file", txt |-> "manifest", at |-> t, list |-> items]

IsPrefix(p, q) == Len(p) <= Len(q) /\ SubSeq(q, 1, Len(p)) = p
Parent(p) == SubSeq(p, 1, Len(p) - 1)
Base(p) == p[Len(p)]
Suffix(q, p) == SubSeq(q, Len(p) + 1, Len(q))
Prefixes(p) == {SubSeq(p, 1, i) : i \in 0..Len(p)}
Range(q) == {q[i] : i \in 1..Len(q)}

Exists(f, p) == p \in DOMAIN f
IsFile(f, p) == p \in DOMAIN f /\ f[p].k = "file"
IsDir(f, p) == p \in DOMAIN f /\ f[p].k = "dir"
Under(f, p) == {q \in DOMAIN f : IsPrefix(p, q)}
Children(f, p) == {q \in DOMAIN f : Len(q) = Len(p) + 1 /\ IsPrefix(p, q)}

(* the tree rooted at p, by relative path; the empty function when absent *)
SubTree(f, p) == [r \in {Suffix(q, p) : q \in Under(f, p)} |-> f[p \o r]]

PutNew(f, p, node) == [q \in DOMAIN f \cup {p} |-> IF q \in DOMAIN f THEN f[q] ELSE node]
Put(f, p, node) == [q \in DOMAIN f \cup {p} |-> IF q = p THEN node ELSE f[q]]
Without(f, gone) == [q \in DOMAIN f \ gone |-> f[q]]

----------------------------------------------------------------------------
(* pathlib / shutil primitives: each returns [fs, ok]; ok = FALSE when the  *)
(* call raises                                                            *)

Raised(f) == [fs |-> f, ok |-> FALSE]
Done(f) == [fs |-> f, ok |-> TRUE]

(* Path.mkdir(parents=True, exist_ok=True) *)
Mkdir(f, p) ==
    IF \E a \in Prefixes(p) : IsFile(f, a)
    THEN Raised(f)
    ELSE Done([q \in DOMAIN f \cup Prefixes(p) |-> IF q \in DOMAIN f THEN f[q] ELSE Dir])

(* Path.rmdir(): only an empty directory can be removed *)
RmdirKept(f, p) == Done(f)

Rmdir(f, p) ==
    IF IsDir(f, p) /\ Children(f, p) = {}
    THEN Done(Without(f, {p}))
    ELSE Raised(f)

(* shutil.rmtree(p): raises on anything that is not a directory *)
RmTree(f, p) ==
    IF IsDir(f, p) THEN Done(Without(f, Under(f, p))) ELSE Raised(f)

(* shutil.copy2(src, dst): a dst that is a directory receives the file     *)
(* under the source's base name                                            *)
Copy2Dest(f, src, dst) == IF IsDir(f, dst) THEN dst \o <<Base(src)>> ELSE dst

Copy2(f, src, dst) ==
    LET d == Copy2Dest(f, src, dst)
    IN  IF ~IsFile(f, src) \/ IsDir(f, d) \/ ~IsDir(f, Parent(d)) \/ d = src
        THEN Raised(f)
        ELSE Done(Put(f, d, f[src]))

(* shutil.copytree(src, dst, dirs_exist_ok=merge).  rel ranges over the    *)
(* paths of the source tree relative to src.                               *)
TreeBlocked(f, src, dst, rel) ==
    \E i \in 1..Len(rel) :
        /\ IsDir(f, src \o SubSeq(rel, 1, i))
        /\ IsFile(f, dst \o SubSeq(rel, 1, i))

TreeFileDest(f, src, dst, rel) == Copy2Dest(f, src \o rel, dst \o rel)

CopyTree(f, src, dst, merge) ==
    IF ~IsDir(f, src) \/ (Exists(f, dst) /\ (~merge \/ IsFile(f, dst)))
       \/ (\E a \in Prefixes(dst) : IsFile(f, a))
    THEN Raised(f)
    ELSE
      LET rels == {Suffix(q, src) : q \in Under(f, src)}
          free == {r \in rels : ~TreeBlocked(f, src, dst, r)}
          dirs == {r \in free : IsDir(f, src \o r)}
          files == {r \in free : IsFile(f, src \o r)
                                 /\ ~IsDir(f, TreeFileDest(f, src, dst, r))}
          made == Prefixes(dst) \cup {dst \o r : r \in dirs}
          wrote == {TreeFileDest(f, src, dst, r) : r \in files}
          from(p) == CHOOSE r \in files : TreeFileDest(f, src, dst, r) = p
          g == [p \in DOMAIN f \cup made \cup wrote |->
                  IF p \in wrote THEN f[src \o from(p)]
                  ELSE IF p \in DOMAIN f THEN f[p] ELSE Dir]
          \* a destination inside the source is copied into itself again and
          \* again until the path is too long: the call always raises
          clean == (dirs \cup files = rels) /\ ~IsPrefix(src, dst)
      IN  [fs |-> g, ok |-> clean]

(* an I/O error part-way through a tree copy: the destination directory   *)
(* has been made, its content has not been copied                          *)
CopyTreeCut(f, src, dst, merge) ==
    LET c == CopyTree(f, src, dst, merge)
    IN  IF Exists(f, dst) \/ ~IsDir(f, src) THEN Raised(f)
        ELSE Raised([p \in DOMAIN f \cup Prefixes(dst) |->
                        IF p \in DOMAIN f THEN f[p] ELSE c.fs[p]])

----------------------------------------------------------------------------
(* hybrid BackupManager.create_backup *)

Entry(n, isdir) == [n |-> n, dir |-> isdir]

(* one pass of the for loop over files_to_backup; acc = [fs, ok, backed],  *)
(* failAt = index of the entry whose copy hits an I/O error (0: none)      *)
BackupOne(acc, source, bdir, fail) ==
    LET dest == bdir \o <<Base(source)>>
        c == IF IsFile(acc.fs, source)
             THEN (IF fail THEN Raised(acc.fs) ELSE Copy2(acc.fs, source, dest))
             ELSE (IF fail THEN CopyTreeCut(acc.fs, source, dest, TRUE)
                   ELSE CopyTree(acc.fs, source, dest, TRUE))
    IN  IF ~Exists(acc.fs, source) THEN acc
        ELSE [fs |-> c.fs, ok |-> c.ok,
              backed |-> IF c.ok
                         THEN Append(acc.backed, Entry(Base(source), IsDir(acc.fs, source)))
                         ELSE acc.backed]

RECURSIVE BackupLoop(_, _, _, _, _)
BackupLoop(acc, files, bdir, i, failAt) ==
    IF i > Len(files) \/ ~acc.ok THEN acc
    ELSE BackupLoop(BackupOne(acc, files[i], bdir, i = failAt), files, bdir, i + 1, failAt)

NoArchive == << >>

BackupDir(name, ts) == ConfigDir \o <<Arch(name, ts)>>

(* returns [fs, ok, archive, backed, why]: ok = FALSE when the call raised  *)
(* (why = the statement that raised), archive = NoArchive when it returned  *)
(* None                                                                    *)
CreateBackup(f, ts, files, name, failAt, t) ==
    LET bdir == BackupDir(name, ts)
        m == Mkdir(f, bdir)
        l == BackupLoop([fs |-> m.fs, ok |-> TRUE, backed |-> << >>], files, bdir, 1, failAt)
        r == Rmdir(l.fs, bdir)
    IN  IF ~m.ok THEN [fs |-> f, ok |-> FALSE, archive |-> NoArchive, backed |-> << >>,
                       why |-> "mkdir"]
        ELSE IF ~l.ok THEN [fs |-> l.fs, ok |-> FALSE, archive |-> NoArchive,
                            backed |-> l.backed, why |-> "copy"]
        ELSE IF l.backed # << >>
        THEN IF IsDir(l.fs, bdir \o <<Manifest>>)
             THEN [fs |-> l.fs, ok |-> FALSE, archive |-> NoArchive, backed |-> l.backed,
                   why |-> "manifest"]
             ELSE [fs |-> Put(l.fs, bdir \o <<Manifest>>, ManifestFile(t, l.backed)),
                   ok |-> TRUE, archive |-> bdir, backed |-> l.backed, why |-> ""]
        ELSE [fs |-> r.fs, ok |-> r.ok, archive |-> NoArchive, backed |-> << >>,
              why |-> IF r.ok THEN "" ELSE "rmdir"]

----------------------------------------------------------------------------
(* what callers of the BackupManager pass in *)

Categories == {"shell"}

Requests == {
    <<<<Zshrc>>, <<OhMyZsh>>>>,
    <<<<Bashrc>>>>,
    <<<<Config, Starship>>>>,
    <<<<Config>>>>
}

Timestamps == {Strftime(t) : t \in 0..MaxClock}

(* self.home / item.name and self.home / f'{item.name}.pre-restore' *)
Target(n) == <<n>>
CurrentBackup(n) == <<PreRestoreName(n)>>

Idle == [pc |-> "idle", arch |-> NoArchive, todo |-> << >>, restored |-> << >>, imm |-> FALSE]

NoRet == [op |-> "none", raised |-> FALSE, val |-> FALSE, archive |-> NoArchive,
          bdir |-> NoArchive, files |-> << >>, names |-> << >>, imm |-> FALSE,
          failed |-> << >>, why |-> "", cat |-> ""]

InitHome ==
    [p \in {Home, <<Zshrc>>, <<OhMyZsh>>, <<OhMyZsh, Inner>>} |->
        IF p \in {Home, <<OhMyZsh>>} THEN Dir ELSE File("A")]

(* the same home with ~/.config/starship.toml, with the snapshot an earlier *)
(* restore left as ~/.oh-my-zsh.pre-restore, and with a plain file where an *)
(* archive directory would be                                              *)
InitHomes == {InitHome,
              Put(Put(InitHome, ConfigDir, Dir), ConfigDir \o <<Starship>>, File("A")),
              Put(Put(InitHome, CurrentBackup(OhMyZsh), Dir),
                  CurrentBackup(OhMyZsh) \o <<Extra>>, File("B")),
              Put(Put(InitHome, ConfigDir, Dir), BackupDir("shell", Strftime(0)), File("B"))}

(* the filesystem when the last create_backup (c) and restore_backup (r)    *)
(* began, and the first archive a create_backup returned, as it was then   *)
NoPre == [c |-> InitHome, r |-> InitHome,
          made |-> [path |-> NoArchive, tree |-> << >>]]

Remember(made, r) ==
    IF made.path = NoArchive /\ r.ok /\ r.archive # NoArchive
    THEN [path |-> r.archive, tree |-> SubTree(r.fs, r.archive)]
    ELSE made

NoInst == [pc |-> "idle", shell |-> "", framework |-> "", prompt |-> "", backup |-> FALSE,
           fonts |-> FALSE, setdef |-> FALSE, steps |-> << >>, backedUp |-> FALSE,
           raisedIn |-> "", fs0 |-> InitHome]
NoProto == [op |-> "none", cleaned |-> 0, errors |-> {}, keep |-> 0, listed |-> << >>,
            success |-> FALSE, names |-> << >>, failed |-> << >>, archive |-> NoArchive,
            found |-> TRUE, selective |-> FALSE, items |-> {}]

Init ==
    /\ fs \in InitHomes
    /\ now = 0
    /\ managers = {}
    /\ rs = Idle
    /\ ret = NoRet
    /\ pre = NoPre
    /\ budget = MaxOps
    /\ inst = NoInst
    /\ proto = NoProto

(* time passes *)
Tick ==
    /\ rs.pc = "idle"
    /\ now < MaxClock
    /\ now' = now + 1
    /\ UNCHANGED <<fs, managers, rs, ret, pre, budget, inst, proto>>

(* a run of the program constructs its BackupManager; __init__ fixes the   *)
(* timestamp for every later call on it                                    *)
NewManager ==
    /\ rs.pc = "idle"
    /\ Strftime(now) \notin managers
    /\ managers' = {Strftime(now)}
    /\ UNCHANGED <<fs, now, rs, ret, pre, budget, inst, proto>>

CreateBackupFrom(R) ==
    /\ rs.pc = "idle"
    /\ budget > 0
    /\ \E ts \in managers, files \in R, name \in Categories :
       \E failAt \in 0..Len(files) :
          \E r \in {CreateBackup(fs, ts, files, name, failAt, now)} :
              /\ fs' = r.fs
              /\ ret' = [op |-> "create_backup", raised |-> ~r.ok, val |-> r.archive # NoArchive,
                         archive |-> r.archive, bdir |-> BackupDir(name, ts), files |-> files,
                         names |-> r.backed, imm |-> FALSE, failed |-> << >>,
                         why |-> r.why, cat |-> name]
              /\ pre' = [pre EXCEPT !.c = fs, !.made = Remember(@, r)]
    /\ budget' = budget - 1
    /\ UNCHANGED <<now, managers, rs, inst, proto>>

CreateBackupCall == CreateBackupFrom(Requests)

----------------------------------------------------------------------------
(* hybrid BackupManager.restore_backup, one step per statement group of    *)
(* the loop body; an exception anywhere ends the call with False           *)

RECURSIVE Orders(_)
Orders(S) ==
    IF S = {} THEN {<< >>}
    ELSE UNION {{<<x>> \o o : o \in Orders(S \ {x})} : x \in S}

RestoreRet(ok, bdir, names, imm) ==
    [op |-> "restore_backup", raised |-> FALSE, val |-> ok, archive |-> bdir,
     bdir |-> bdir, files |-> << >>, names |-> names, imm |-> imm,
     failed |-> << >>, why |-> "", cat |-> ""]

(* lines 93-95: the children of the archive root, the manifest skipped *)
Listing(f, bdir) == {Base(q) : q \in Children(f, bdir)} \ {Manifest}

(* lines 79-93: where the call goes before its loop.  A path that does not  *)
(* exist ends it at the check; iterdir() of a path that is no directory     *)
(* raises inside the try                                                   *)
RestoreEntryUnchecked(f, bdir) == "loop"

RestoreEntry(f, bdir) ==
    IF ~Exists(f, bdir) THEN "not found"
    ELSE IF ~IsDir(f, bdir) THEN "failed"
    ELSE "loop"

(* lines 79-93: the existence check and the directory listing, which the    *)
(* filesystem returns in any order                                         *)
RestoreBegin ==
    /\ rs.pc = "idle"
    /\ budget > 0
    /\ budget' = budget - 1
    /\ \E name \in Categories, ts \in Timestamps :
         LET bdir == BackupDir(name, ts)
             imm == ret.op = "create_backup" /\ ~ret.raised /\ ret.archive = bdir
         IN  IF RestoreEntry(fs, bdir) # "loop"
             THEN /\ ret' = [RestoreRet(FALSE, bdir, << >>, imm)
                                EXCEPT !.why = RestoreEntry(fs, bdir)]
                  /\ UNCHANGED rs
             ELSE /\ \E order \in Orders(Listing(fs, bdir)) :
                        rs' = [pc |-> "snapshot", arch |-> bdir, todo |-> order,
                               restored |-> << >>, imm |-> imm]
                  /\ UNCHANGED ret
    /\ pre' = [pre EXCEPT !.r = fs]
    /\ UNCHANGED <<fs, now, managers, inst, proto>>

(* lines 99-105: copy of the current target to <name>.pre-restore *)
SnapshotSkipped(f, n, fail) == Done(f)

Snapshot(f, n, fail) ==
    IF ~Exists(f, Target(n)) THEN Done(f)
    ELSE IF IsFile(f, Target(n))
    THEN (IF fail THEN Raised(f) ELSE Copy2(f, Target(n), CurrentBackup(n)))
    ELSE (IF fail THEN CopyTreeCut(f, Target(n), CurrentBackup(n), TRUE)
          ELSE CopyTree(f, Target(n), CurrentBackup(n), TRUE))

(* lines 107-113: the archived item takes the place of the target *)
Replace(f, item, n, fail) ==
    IF IsFile(f, item)
    THEN (IF fail = "copy" THEN Raised(f) ELSE Copy2(f, item, Target(n)))
    ELSE LET r == IF Exists(f, Target(n))
                  THEN (IF fail = "rm" THEN Raised(f) ELSE RmTree(f, Target(n)))
                  ELSE Done(f)
         IN  IF ~r.ok THEN r
             ELSE IF fail = "copy" THEN CopyTreeCut(r.fs, item, Target(n), FALSE)
             ELSE CopyTree(r.fs, item, Target(n), FALSE)

RestoreSnapshot ==
    /\ rs.pc = "snapshot"
    /\ rs.todo # << >>
    /\ \E fail \in BOOLEAN :
          \E c \in {Snapshot(fs, Head(rs.todo), fail)} :
              /\ fs' = c.fs
              /\ IF c.ok
                 THEN rs' = [rs EXCEPT !.pc = "replace"] /\ UNCHANGED ret
                 ELSE /\ rs' = Idle
                      /\ ret' = [RestoreRet(FALSE, rs.arch, rs.restored, rs.imm)
                                    EXCEPT !.failed = <<Head(rs.todo)>>, !.why = "failed"]
    /\ UNCHANGED <<now, managers, pre, budget, inst, proto>>

RestoreReplace ==
    /\ rs.pc = "replace"
    /\ LET n == Head(rs.todo)
       IN  \E fail \in {"none", "rm", "copy"} :
             \E c \in {Replace(fs, rs.arch \o <<n>>, n, fail)} :
                 /\ fs' = c.fs
                 /\ IF c.ok
                    THEN /\ rs' = [rs EXCEPT !.pc = "snapshot", !.todo = Tail(@),
                                             !.restored = Append(@, n)]
                         /\ UNCHANGED ret
                    ELSE /\ rs' = Idle
                         /\ ret' = [RestoreRet(FALSE, rs.arch, rs.restored, rs.imm)
                                       EXCEPT !.failed = <<n>>, !.why = "failed"]
    /\ UNCHANGED <<now, managers, pre, budget, inst, proto>>

(* lines 117-122 *)
RestoreEnd ==
    /\ rs.pc = "snapshot"
    /\ rs.todo = << >>
    /\ rs' = Idle
    /\ ret' = [RestoreRet(rs.restored # << >>, rs.arch, rs.restored, rs.imm)
                  EXCEPT !.why = IF rs.restored # << >> THEN "" ELSE "nothing"]
    /\ UNCHANGED <<fs, now, managers, pre, budget, inst, proto>>

----------------------------------------------------------------------------
(* the live configuration changes between two calls: the installer writes   *)
(* a configuration file or installs a framework directory, or the user      *)
(* removes one                                                            *)

LiveNames == {Zshrc, OhMyZsh}

SetLive(f, n, v) ==
    LET g == Without(f, Under(f, <<n>>))
    IN  IF v = "absent" THEN g
        ELSE IF v = "file" THEN Put(g, <<n>>, File("B"))
        ELSE Put(Put(g, <<n>>, Dir), <<n, Extra>>, File("B"))

EnvChange ==
    /\ rs.pc = "idle"
    /\ budget > 0
    /\ budget' = budget - 1
    /\ \E n \in LiveNames, v \in {"absent", "file", "dir"} : fs' = SetLive(fs, n, v)
    /\ ret' = [NoRet EXCEPT !.op = "env"]
    /\ UNCHANGED <<now, managers, rs, pre, inst, proto>>

Next ==
    \/ Tick
    \/ NewManager
    \/ CreateBackupCall
    \/ RestoreBegin
    \/ RestoreSnapshot
    \/ RestoreReplace
    \/ RestoreEnd
    \/ EnvChange

Spec == Init /\ [][Next]_vars

----------------------------------------------------------------------------
(* SimpleShellInstaller: __init__ and setup_shell_environment, one action   *)
(* per numbered step of the method                                         *)

P10k == N(".p10k.zsh")
BashIt == N(".bash_it")
FontDir == <<N(".local"), N("share"), N("fonts")>>
PoshThemes == <<Config, N("oh-my-posh"), N("themes")>>
P10kTheme == <<OhMyZsh, N("custom"), N("themes"), N("powerlevel10k")>>

(* BackupManager.backup_shell_configs: configs.get(shell_type, []) + general *)
ShellConfigs(shell) ==
    (IF shell = "zsh"
     THEN <<<<Zshrc>>, <<N(".zsh_history")>>, <<OhMyZsh>>, <<P10k>>>>
     ELSE IF shell = "bash"
     THEN <<<<Bashrc>>, <<N(".bash_profile")>>, <<N(".bash_history")>>, <<BashIt>>,
            <<N(".bash_aliases")>>>>
     ELSE << >>)
    \o <<<<N(".profile")>>, <<N(".inputrc")>>>>

ShellCategory(shell) == IF shell = "zsh" THEN "zsh-shell" ELSE "bash-shell"

(* the configurations setup.py accepts *)
InstallConfigs ==
    [shell : {"zsh", "bash"}, framework : {"none", "oh-my-zsh", "bash-it"},
     prompt : {"default", "powerlevel10k", "starship", "oh-my-posh"},
     backup : BOOLEAN, fonts : BOOLEAN, setdef : BOOLEAN]

(* ConfigTemplates.write_config(path, content): the generated text written *)
(* to path, or False returned and nothing written                          *)
WriteConfig(f, path, ok) ==
    IF ok /\ ~IsDir(f, path) /\ IsDir(f, Parent(path)) THEN Put(f, path, File("B")) ELSE f

(* create_shell_configuration: the files it writes for a configuration *)
ConfigWrites(c) ==
    (IF c.shell = "zsh"
     THEN <<<<Zshrc>>>> \o (IF c.prompt = "powerlevel10k" THEN <<<<P10k>>>> ELSE << >>)
     ELSE IF c.shell = "bash" THEN <<<<Bashrc>>>> ELSE << >>)
    \o (IF c.prompt = "starship" THEN <<<<Config, Starship>>>> ELSE << >>)

RECURSIVE WriteAll(_, _, _)
WriteAll(f, paths, ok) ==
    IF paths = << >> THEN f
    ELSE WriteAll(WriteConfig(f, Head(paths), ok), Tail(paths), ok)

(* where the run goes after step 1: an exception leaves the try block *)
AfterBackupSwallowed(ok) == "prereq"
AfterBackup(ok) == IF ok THEN "prereq" ELSE "failed"

(* SimpleShellInstaller(): its BackupManager and FontManager are built,     *)
(* then setup_shell_environment(config) is entered                         *)
InstallerStart ==
    /\ inst.pc = "idle"
    /\ rs.pc = "idle"
    /\ \E c \in InstallConfigs :
         LET g == Mkdir(fs, FontDir).fs
         IN  /\ fs' = g
             /\ inst' = [pc |-> "backup", shell |-> c.shell, framework |-> c.framework,
                         prompt |-> c.prompt, backup |-> c.backup, fonts |-> c.fonts,
                         setdef |-> c.setdef, steps |-> << >>, backedUp |-> FALSE,
                         raisedIn |-> "", fs0 |-> g]
    /\ managers' = {Strftime(now)}
    /\ UNCHANGED <<now, rs, ret, pre, budget, proto>>

(* step 1: backup_existing_configs *)
InstallBackup ==
    /\ inst.pc = "backup"
    /\ IF ~inst.backup
       THEN /\ inst' = [inst EXCEPT !.pc = "prereq"]
            /\ UNCHANGED <<fs, ret, pre>>
       ELSE \E ts \in managers, failAt \in 0..Len(ShellConfigs(inst.shell)) :
              LET files == ShellConfigs(inst.shell)
                  name == ShellCategory(inst.shell)
              IN  \E r \in {CreateBackup(fs, ts, files, name, failAt, now)} :
                  /\ fs' = r.fs
                  /\ ret' = [op |-> "create_backup", raised |-> ~r.ok,
                             val |-> r.archive # NoArchive, archive |-> r.archive,
                             bdir |-> BackupDir(name, ts), files |-> files,
                             names |-> r.backed, imm |-> FALSE, failed |-> << >>,
                             why |-> r.why, cat |-> name]
                  /\ pre' = [pre EXCEPT !.c = fs, !.made = Remember(@, r)]
                  /\ inst' = [inst EXCEPT !.pc = AfterBackup(r.ok), !.backedUp = r.ok,
                                          !.raisedIn = IF r.ok THEN "" ELSE "backup"]
    /\ UNCHANGED <<now, managers, rs, budget, proto>>

(* step 2: install_shell_prerequisites raises when the packages fail *)
InstallPrereq ==
    /\ inst.pc = "prereq"
    /\ \E ok \in BOOLEAN :
         inst' = [inst EXCEPT !.pc = IF ok THEN "framework" ELSE "failed",
                              !.steps = Append(@, "prereq"),
                              !.raisedIn = IF ok THEN "" ELSE "prereq"]
    /\ UNCHANGED <<fs, now, managers, rs, ret, pre, budget, proto>>

(* step 3: install_framework; the external installer may or may not leave   *)
(* the framework directory, failures are only warned about                 *)
InstallFramework ==
    /\ inst.pc = "framework"
    /\ IF inst.framework = "none"
       THEN inst' = [inst EXCEPT !.pc = "prompt"] /\ UNCHANGED fs
       ELSE /\ inst' = [inst EXCEPT !.pc = "prompt", !.steps = Append(@, "framework")]
            /\ \E made \in BOOLEAN :
                 LET d == IF inst.shell = "zsh" /\ inst.framework = "oh-my-zsh" THEN <<OhMyZsh>>
                          ELSE IF inst.shell = "bash" /\ inst.framework = "bash-it" THEN <<BashIt>>
                          ELSE Home
                 IN  fs' = IF made /\ ~Exists(fs, d) THEN Mkdir(fs, d).fs ELSE fs
    /\ UNCHANGED <<now, managers, rs, ret, pre, budget, proto>>

(* step 4: install_prompt *)
InstallPrompt ==
    /\ inst.pc = "prompt"
    /\ IF inst.prompt = "default"
       THEN inst' = [inst EXCEPT !.pc = "fonts"] /\ UNCHANGED fs
       ELSE /\ inst' = [inst EXCEPT !.pc = "fonts", !.steps = Append(@, "prompt")]
            /\ \E made \in BOOLEAN :
                 fs' = IF inst.prompt = "oh-my-posh" THEN Mkdir(fs, PoshThemes).fs
                       ELSE IF inst.prompt = "powerlevel10k" /\ made THEN Mkdir(fs, P10kTheme).fs
                       ELSE fs
    /\ UNCHANGED <<now, managers, rs, ret, pre, budget, proto>>

(* step 5: install_fonts (downloads into the font directory) *)
InstallFonts ==
    /\ inst.pc = "fonts"
    /\ inst' = [inst EXCEPT !.pc = "config",
                            !.steps = IF inst.fonts THEN Append(@, "fonts") ELSE @]
    /\ UNCHANGED <<fs, now, managers, rs, ret, pre, budget, proto>>

(* step 6: create_shell_configuration *)
InstallConfig ==
    /\ inst.pc = "config"
    /\ \E ok \in BOOLEAN : fs' = WriteAll(fs, ConfigWrites(inst), ok)
    /\ inst' = [inst EXCEPT !.pc = "default", !.steps = Append(@, "config")]
    /\ UNCHANGED <<now, managers, rs, ret, pre, budget, proto>>

(* step 7: set_default_shell, then the summary *)
InstallDefault ==
    /\ inst.pc = "default"
    /\ inst' = [inst EXCEPT !.pc = "done",
                            !.steps = IF inst.setdef THEN Append(@, "default") ELSE @]
    /\ UNCHANGED <<fs, now, managers, rs, ret, pre, budget, proto>>

NextInstall ==
    \/ InstallerStart
    \/ InstallBackup
    \/ InstallPrereq
    \/ InstallFramework
    \/ InstallPrompt
    \/ InstallFonts
    \/ InstallConfig
    \/ InstallDefault

SpecInstall == Init /\ [][NextInstall]_vars

(* everything an install step or a configuration write can touch *)
InstallerTouches ==
    {<<Zshrc>>, <<P10k>>, <<Bashrc>>, <<Config, Starship>>, <<OhMyZsh>>, <<BashIt>>,
     <<Config, N("oh-my-posh")>>}

(* C7: with backup enabled, an install step or configuration write has      *)
(* begun only after the backup step completed, and when the backup step    *)
(* raised the run has failed with no install step begun and nothing an      *)
(* install step or configuration write touches changed.                    *)
C7_BackupBeforeInstall ==
    (inst.pc # "idle" /\ inst.backup) =>
        /\ inst.steps # << >> => inst.backedUp
        /\ (inst.pc = "backup" \/ inst.raisedIn = "backup") =>
              /\ inst.steps = << >>
              /\ \A q \in InstallerTouches : SubTree(fs, q) = SubTree(inst.fs0, q)
        /\ inst.raisedIn = "backup" => inst.pc = "failed"

(* the backup step raised in a home whose .zshrc a zsh install would         *)
(* overwrite                                                              *)
C7_Witness ==
    /\ inst.backup
    /\ inst.shell = "zsh"
    /\ inst.raisedIn = "backup"
    /\ ret.raised
    /\ IsFile(fs, <<Zshrc>>)

----------------------------------------------------------------------------
(* prototype BackupManager (deprecated/prototypes/hybrid-installer):        *)
(* list_backups and clean_old_backups                                      *)

(* item.name.startswith('shell-backup-') *)
HasShellPrefix(n) == n.kind = "archive" /\ n.b = "shell" /\ n.pr = 0

(* datetime.strptime(timestamp_str, '%Y%m%d-%H%M%S'): ok = FALSE is the     *)
(* ValueError, value the parsed time                                       *)
StrptimeLenient(t) == [ok |-> TRUE, value |-> t[1] * SecPerMin + t[2]]

Strptime(t) ==
    [ok |-> t[1] \in 0..(SecPerMin - 1) /\ t[2] \in 0..(SecPerMin - 1),
     value |-> t[1] * SecPerMin + t[2]]

(* the directories list_backups keeps *)
Listed(f) ==
    {q \in Children(f, ConfigDir) :
        IsDir(f, q) /\ HasShellPrefix(Base(q)) /\ Strptime(Base(q).ts).ok}

Stamp(q) == Strptime(Base(q).ts).value

(* backups.sort(key=timestamp, reverse=True): stable, equal keys keep the   *)
(* order of the listing                                                    *)
ComesFirstAscending(a, b) == Stamp(a) < Stamp(b)
ComesFirst(a, b) == Stamp(a) > Stamp(b)

RECURSIVE InsertSorted(_, _)
InsertSorted(sorted, x) ==
    IF sorted = << >> THEN <<x>>
    ELSE IF ComesFirst(x, Head(sorted)) THEN <<x>> \o sorted
    ELSE <<Head(sorted)>> \o InsertSorted(Tail(sorted), x)

RECURSIVE SortBackups(_)
SortBackups(listing) ==
    IF listing = << >> THEN << >>
    ELSE InsertSorted(SortBackups(SubSeq(listing, 1, Len(listing) - 1)),
                      listing[Len(listing)])

(* backups[keep_count:] *)
ToRemove(backups, keep) == SubSeq(backups, keep + 1, Len(backups))

(* the removal loop; failing = the archives whose rmtree raises *)
RECURSIVE RemoveAllAbort(_, _, _)
RemoveAllAbort(acc, paths, failing) ==
    IF paths = << >> THEN acc
    ELSE IF Head(paths) \in failing
    THEN [acc EXCEPT !.errors = @ \cup {Head(paths)}]
    ELSE RemoveAllAbort([acc EXCEPT !.fs = RmTree(acc.fs, Head(paths)).fs,
                                    !.removed = @ + 1],
                        Tail(paths), failing)

RECURSIVE RemoveAll(_, _, _)
RemoveAll(acc, paths, failing) ==
    IF paths = << >> THEN acc
    ELSE LET q == Head(paths)
             r == IF q \in failing THEN Raised(acc.fs) ELSE RmTree(acc.fs, q)
         IN  RemoveAll([fs |-> r.fs,
                        removed |-> IF r.ok THEN acc.removed + 1 ELSE acc.removed,
                        errors |-> IF r.ok THEN acc.errors ELSE acc.errors \cup {q}],
                       Tail(paths), failing)

CleanOldBackups(f, listing, keep, failing) ==
    LET backups == SortBackups(listing)
    IN  IF Len(backups) <= keep
        THEN [fs |-> f, removed |-> 0, errors |-> {}]
        ELSE RemoveAll([fs |-> f, removed |-> 0, errors |-> {}],
                       ToRemove(backups, keep), failing)

(* what ~/.config may hold: archives of the category, and always one of     *)
(* another category, a directory whose suffix is no timestamp, and a plain  *)
(* file named like an archive                                              *)
ShellArchives ==
    {Arch("shell", <<0, 0>>), Arch("shell", <<0, 1>>), Arch("shell", <<0, SecPerMin - 1>>),
     Arch("shell", <<1, 0>>), Arch("shell", <<1, 2>>)}

ForeignEntries == {Arch("shell", <<0, SecPerMin + 1>>), Arch("zsh-shell", <<0, 0>>)}

PlainArchiveName == Arch("shell", <<1, 1>>)

HomeWith(S) ==
    [p \in {Home, <<Zshrc>>, ConfigDir, ConfigDir \o <<PlainArchiveName>>}
           \cup {ConfigDir \o <<n>> : n \in S}
           \cup {ConfigDir \o <<n, Zshrc>> : n \in S} |->
        IF p \in {Home, ConfigDir} \/ (Len(p) = 2 /\ Base(p) \in S) THEN Dir ELSE File("A")]

InitClean ==
    /\ fs \in {HomeWith(S \cup ForeignEntries) : S \in SUBSET ShellArchives}
    /\ now = 0
    /\ managers = {}
    /\ rs = Idle
    /\ ret = NoRet
    /\ pre = NoPre
    /\ budget = MaxOps
    /\ inst = NoInst
    /\ proto = NoProto

CleanCall ==
    /\ budget > 0
    /\ budget' = budget - 1
    /\ \E keep \in 0..MaxKeep,
          failing \in {F \in SUBSET Listed(fs) : Cardinality(F) <= MaxFail} :
       \E listing \in Orders(Listed(fs)) :
          \E r \in {CleanOldBackups(fs, listing, keep, failing)} :
              /\ fs' = r.fs
              /\ proto' = [NoProto EXCEPT !.op = "clean_old_backups", !.cleaned = r.removed,
                                          !.errors = r.errors, !.keep = keep,
                                          !.listed = SortBackups(listing)]
    /\ pre' = [pre EXCEPT !.c = fs]
    /\ UNCHANGED <<now, managers, rs, ret, inst>>

NextClean == CleanCall

SpecClean == InitClean /\ [][NextClean]_vars

Min(a, b) == IF a < b THEN a ELSE b

(* C10: a clean_old_backups(keep) in which no removal failed leaves          *)
(* min(keep, total) archives of the category, each newer than every one it   *)
(* removed, reports the number removed, and with keep = 0 leaves none.      *)
C10_KeepsMostRecent ==
    (proto.op = "clean_old_backups" /\ proto.errors = {}) =>
        LET before == Listed(pre.c)
            after == Listed(fs)
        IN  /\ after \subseteq before
            /\ Cardinality(after) = Min(proto.keep, Cardinality(before))
            /\ \A a \in after, b \in before \ after : Stamp(a) > Stamp(b)
            /\ proto.cleaned = Cardinality(before) - Cardinality(after)
            /\ proto.keep = 0 => after = {}

(* keep_count = 2 with more archives than that: the older ones were removed *)
C10_Witness ==
    /\ proto.op = "clean_old_backups"
    /\ proto.errors = {}
    /\ proto.keep = 2
    /\ Cardinality(Listed(pre.c)) = 5
    /\ proto.cleaned = 3
    /\ Cardinality(Listed(fs)) = 2

(* C20: clean_old_backups attempts every archive beyond the first keep_count  *)
(* of the newest-first list: each is either removed, or failed, is reported  *)
(* once among the errors and is still on disk as it was; nothing else is    *)
(* reported, and 'cleaned' is the number of archives removed.               *)
C20_ContinuesPastFailure ==
    proto.op = "clean_old_backups" =>
        LET rem == Range(ToRemove(proto.listed, proto.keep))
        IN  /\ \A q \in rem :
                  IF q \in proto.errors
                  THEN SubTree(fs, q) = SubTree(pre.c, q) /\ IsDir(fs, q)
                  ELSE ~Exists(fs, q)
            /\ proto.errors \subseteq rem
            /\ proto.cleaned = Cardinality({q \in Listed(pre.c) : ~Exists(fs, q)})
            /\ proto.cleaned + Cardinality(proto.errors) = Cardinality(rem)

(* a removal failed and an archive that came after it in the list was        *)
(* removed                                                                 *)
C20_Witness ==
    /\ proto.op = "clean_old_backups"
    /\ LET rem == ToRemove(proto.listed, proto.keep)
       IN  \E i, j \in 1..Len(rem) :
              /\ i < j
              /\ rem[i] \in proto.errors
              /\ ~Exists(fs, rem[j])
              /\ proto.cleaned >= 1

(* a directory directly under ~/.config named shell-backup-<timestamp>, the  *)
(* minutes and seconds of the timestamp below sixty                         *)
ValidShellArchive(f, q) ==
    /\ Len(q) = 2 /\ IsPrefix(ConfigDir, q) /\ IsDir(f, q)
    /\ Base(q).kind = "archive" /\ Base(q).b = "shell" /\ Base(q).pr = 0
    /\ Base(q).ts[1] \in 0..(SecPerMin - 1)
    /\ Base(q).ts[2] \in 0..(SecPerMin - 1)

----------------------------------------------------------------------------
(* prototype BackupManager: create_backup and restore_backup, which keep     *)
(* going after an entry failed                                             *)

Fish == N("fish")
Nushell == N("nushell")

(* configs_to_backup / restore_mappings: name in the archive, path in home *)
ProtoConfigs ==
    <<[n |-> Zshrc, p |-> <<Zshrc>>],
      [n |-> Bashrc, p |-> <<Bashrc>>],
      [n |-> P10k, p |-> <<P10k>>],
      [n |-> N("oh-my-zsh"), p |-> <<OhMyZsh>>],
      [n |-> N("fish-config"), p |-> <<Config, Fish>>],
      [n |-> N("nushell-config"), p |-> <<Config, Nushell>>],
      [n |-> Starship, p |-> <<Config, Starship>>]>>

ProtoNames == {ProtoConfigs[i].n : i \in 1..Len(ProtoConfigs)}

(* self.backup_dir *)
ProtoBackupDir(ts) == BackupDir("shell", ts)

(* lines 33-48: one entry of create_backup; failing = the names whose copy   *)
(* hits an I/O error                                                       *)
ProtoBackupOne(acc, c, bdir, failing) ==
    LET m == Mkdir(acc.fs, bdir)
        dest == bdir \o <<c.n>>
        r == IF ~m.ok THEN m
             ELSE IF IsDir(m.fs, c.p)
             THEN (IF c.n \in failing THEN CopyTreeCut(m.fs, c.p, dest, TRUE)
                   ELSE CopyTree(m.fs, c.p, dest, TRUE))
             ELSE (IF c.n \in failing THEN Raised(m.fs) ELSE Copy2(m.fs, c.p, dest))
    IN  IF ~Exists(acc.fs, c.p) THEN acc
        ELSE [fs |-> r.fs,
              backed |-> IF r.ok THEN Append(acc.backed, c.n) ELSE acc.backed,
              errors |-> IF r.ok THEN acc.errors ELSE Append(acc.errors, c.n)]

RECURSIVE ProtoBackupLoopAbort(_, _, _, _)
ProtoBackupLoopAbort(acc, i, bdir, failing) ==
    IF i > Len(ProtoConfigs) \/ acc.errors # << >> THEN acc
    ELSE ProtoBackupLoopAbort(ProtoBackupOne(acc, ProtoConfigs[i], bdir, failing),
                              i + 1, bdir, failing)

RECURSIVE ProtoBackupLoop(_, _, _, _)
ProtoBackupLoop(acc, i, bdir, failing) ==
    IF i > Len(ProtoConfigs) THEN acc
    ELSE ProtoBackupLoop(ProtoBackupOne(acc, ProtoConfigs[i], bdir, failing),
                         i + 1, bdir, failing)

(* returns [fs, backed, errors]; 'success' is len(errors) == 0 *)
ProtoCreateBackup(f, ts, failing) ==
    ProtoBackupLoop([fs |-> f, backed |-> << >>, errors |-> << >>], 1,
                    ProtoBackupDir(ts), failing)

(* target_path.unlink() *)
Unlink(f, p) == IF IsFile(f, p) THEN Done(Without(f, {p})) ELSE Raised(f)

(* lines 116-136: one entry of restore_backup *)
ProtoRestoreOne(acc, c, bpath, failing) ==
    LET source == bpath \o <<c.n>>
        gone == IF ~Exists(acc.fs, c.p) THEN Done(acc.fs)
                ELSE IF IsDir(acc.fs, c.p) THEN RmTree(acc.fs, c.p)
                ELSE Unlink(acc.fs, c.p)
        par == IF gone.ok THEN Mkdir(gone.fs, Parent(c.p)) ELSE gone
        r == IF ~par.ok THEN par
             ELSE IF IsDir(par.fs, source)
             THEN (IF c.n \in failing THEN CopyTreeCut(par.fs, source, c.p, FALSE)
                   ELSE CopyTree(par.fs, source, c.p, FALSE))
             ELSE (IF c.n \in failing THEN Raised(par.fs) ELSE Copy2(par.fs, source, c.p))
    IN  IF ~Exists(acc.fs, source) THEN acc
        ELSE [fs |-> r.fs,
              restored |-> IF r.ok THEN Append(acc.restored, c.n) ELSE acc.restored,
              errors |-> IF r.ok THEN acc.errors ELSE Append(acc.errors, c.n)]

RECURSIVE ProtoRestoreLoop(_, _, _, _)
ProtoRestoreLoop(acc, mappings, bpath, failing) ==
    IF mappings = << >> THEN acc
    ELSE ProtoRestoreLoop(ProtoRestoreOne(acc, Head(mappings), bpath, failing),
                          Tail(mappings), bpath, failing)

IsListed(c, items) == c.n \in items

(* lines 106-108: if selective and items: keep the mappings named in items *)
RestoreMappings(selective, items) ==
    IF selective /\ items # {}
    THEN SelectSeq(ProtoConfigs, LAMBDA c : IsListed(c, items))
    ELSE ProtoConfigs

(* returns [fs, found, restored, errors] *)
ProtoRestoreBackup(f, bpath, selective, items, failing) ==
    IF ~Exists(f, bpath) \/ ~IsDir(f, bpath)
    THEN [fs |-> f, found |-> FALSE, restored |-> << >>, errors |-> << >>]
    ELSE LET l == ProtoRestoreLoop([fs |-> f, restored |-> << >>, errors |-> << >>],
                                   RestoreMappings(selective, items), bpath, failing)
         IN  [fs |-> l.fs, found |-> TRUE, restored |-> l.restored, errors |-> l.errors]

(* homes: any of .zshrc, .oh-my-zsh, .config/fish and .config/starship.toml  *)
(* is there or not                                                         *)
ProtoHome(S) ==
    LET paths == {Home}
                 \cup (IF "zshrc" \in S THEN {<<Zshrc>>} ELSE {})
                 \cup (IF "oh-my-zsh" \in S THEN {<<OhMyZsh>>, <<OhMyZsh, Inner>>} ELSE {})
                 \cup (IF "fish" \in S THEN {ConfigDir, <<Config, Fish>>, <<Config, Fish, Inner>>}
                       ELSE {})
                 \cup (IF "starship" \in S THEN {ConfigDir, <<Config, Starship>>} ELSE {})
    IN  [p \in paths |->
            IF p \in {Home, ConfigDir, <<OhMyZsh>>, <<Config, Fish>>} THEN Dir ELSE File("A")]

InitProto ==
    /\ fs \in {ProtoHome(S) : S \in SUBSET {"zshrc", "oh-my-zsh", "fish", "starship"}}
    /\ now = 0
    /\ managers = {}
    /\ rs = Idle
    /\ ret = NoRet
    /\ pre = NoPre
    /\ budget = MaxOps
    /\ inst = NoInst
    /\ proto = NoProto

Failing == {F \in SUBSET {Zshrc, N("oh-my-zsh")} : Cardinality(F) <= MaxFail}

(* BackupManager().create_backup() *)
ProtoCreateCall ==
    /\ budget > 0
    /\ budget' = budget - 1
    /\ \E failing \in Failing :
          \E r \in {ProtoCreateBackup(fs, Strftime(now), failing)} :
              /\ fs' = r.fs
              /\ proto' = [NoProto EXCEPT !.op = "create_backup", !.names = r.backed,
                                          !.failed = r.errors, !.success = r.errors = << >>,
                                          !.archive = IF r.backed # << >>
                                                      THEN ProtoBackupDir(Strftime(now))
                                                      ELSE NoArchive]
    /\ pre' = [pre EXCEPT !.c = fs]
    /\ UNCHANGED <<now, managers, rs, ret, inst>>

(* the paths handed to restore_backup and the names handed as items *)
RestorePaths == {ProtoBackupDir(Strftime(0)), <<Zshrc>>}
ItemNames == {Zshrc, N("nushell-config")}

(* BackupManager().restore_backup(backup_path, selective, items) *)
ProtoRestoreCall ==
    /\ budget > 0
    /\ budget' = budget - 1
    /\ \E bpath \in RestorePaths, selective \in BOOLEAN, items \in SUBSET ItemNames,
          failing \in Failing :
          \E r \in {ProtoRestoreBackup(fs, bpath, selective, items, failing)} :
              /\ fs' = r.fs
              /\ proto' = [NoProto EXCEPT !.op = "restore_backup", !.names = r.restored,
                                          !.failed = r.errors, !.found = r.found,
                                          !.success = r.found /\ r.errors = << >>,
                                          !.archive = bpath, !.selective = selective,
                                          !.items = items]
    /\ pre' = [pre EXCEPT !.c = fs]
    /\ UNCHANGED <<now, managers, rs, ret, inst>>

NextProto ==
    \/ ProtoCreateCall
    \/ ProtoRestoreCall

SpecProto == InitProto /\ [][NextProto]_vars

(* the indices of the configured entries, in the order of the loop *)
ConfigIndex(n) == CHOOSE i \in 1..Len(ProtoConfigs) : ProtoConfigs[i].n = n

InConfigOrder(names) ==
    \A i, j \in 1..Len(names) : i < j => ConfigIndex(names[i]) < ConfigIndex(names[j])

(* C15: after the create_backup of the prototype every configured entry that *)
(* existed is in exactly one of backed_up and errors, each in the order of   *)
(* the configuration, an entry that did not exist is in neither, every       *)
(* entry of backed_up is in the archive, and 'success' is true exactly when  *)
(* errors is empty.                                                        *)
C15_AggregatesErrors ==
    proto.op = "create_backup" =>
        /\ \A i \in 1..Len(ProtoConfigs) :
              LET c == ProtoConfigs[i]
              IN  IF Exists(pre.c, c.p)
                  THEN (c.n \in Range(proto.names)) # (c.n \in Range(proto.failed))
                  ELSE c.n \notin Range(proto.names) /\ c.n \notin Range(proto.failed)
        /\ InConfigOrder(proto.names) /\ InConfigOrder(proto.failed)
        /\ \A n \in Range(proto.names) : Exists(fs, ProtoBackupDir(Strftime(now)) \o <<n>>)
        /\ proto.success <=> proto.failed = << >>

(* the copy of .zshrc failed and the entries after it were backed up *)
C15_Witness ==
    /\ proto.op = "create_backup"
    /\ proto.failed = <<Zshrc>>
    /\ ~proto.success
    /\ proto.names = <<N("oh-my-zsh"), N("fish-config"), Starship>>

(* C19: a restore_backup with selective set and a set of names attempts      *)
(* exactly the entries of the archive that are in the set, and does not      *)
(* report a name of the set that the archive does not hold.                *)
C19_SelectiveRestore ==
    (proto.op = "restore_backup" /\ proto.found /\ proto.selective) =>
        Range(proto.names) \cup Range(proto.failed)
            = Listing(pre.c, proto.archive) \cap proto.items

----------------------------------------------------------------------------
(* list_backups: the hybrid one sorts the paths glob() finds, the prototype   *)
(* sorts the directories it could parse by their parsed timestamp           *)

(* code points of the characters that occur in archive names *)
CodePoint ==
    [c \in {"-", ".", "0", "1", "2", "3", "4", "5", "6", "7", "8", "9",
            "a", "b", "c", "e", "h", "k", "l", "p", "s", "u", "z"} |->
        CASE c = "-" -> 45 [] c = "." -> 46
          [] c = "0" -> 48 [] c = "1" -> 49 [] c = "2" -> 50 [] c = "3" -> 51
          [] c = "4" -> 52 [] c = "5" -> 53 [] c = "6" -> 54 [] c = "7" -> 55
          [] c = "8" -> 56 [] c = "9" -> 57
          [] c = "a" -> 97 [] c = "b" -> 98 [] c = "c" -> 99 [] c = "e" -> 101
          [] c = "h" -> 104 [] c = "k" -> 107 [] c = "l" -> 108 [] c = "p" -> 112
          [] c = "s" -> 115 [] c = "u" -> 117 [] c = "z" -> 122]

DigitChar == <<"0", "1", "2", "3", "4", "5", "6", "7", "8", "9">>

(* a field of the timestamp as strftime writes it: two digits, zero padded *)
TwoDigits(v) == <<DigitChar[(v \div 10) + 1], DigitChar[(v % 10) + 1]>>

CategoryText(cat) ==
    CASE cat = "shell" -> <<"s", "h", "e", "l", "l">>
      [] cat = "zsh-shell" -> <<"z", "s", "h", "-", "s", "h", "e", "l", "l">>
      [] cat = "bash-shell" -> <<"b", "a", "s", "h", "-", "s", "h", "e", "l", "l">>

(* f'{backup_name}-backup-{timestamp}' as text; the date and hour are the     *)
(* same in every name and left out                                         *)
NameText(n) ==
    CategoryText(n.b) \o <<"-", "b", "a", "c", "k", "u", "p", "-">>
        \o TwoDigits(n.ts[1]) \o TwoDigits(n.ts[2]) \o [i \in 1..n.pr |-> "."]

(* str < str: the first differing character decides, a proper prefix is     *)
(* smaller                                                                 *)
TextLess(a, b) ==
    \E i \in 1..(Len(a) + 1) :
        /\ i <= Len(b)
        /\ \A j \in 1..(i - 1) : a[j] = b[j]
        /\ i > Len(a) \/ CodePoint[a[i]] < CodePoint[b[i]]

(* Path < Path for two children of one directory *)
PathGreater(p, q) == TextLess(NameText(Base(q)), NameText(Base(p)))
PathLess(p, q) == TextLess(NameText(Base(p)), NameText(Base(q)))

NoCategory == ""

(* self.config_dir.glob(pattern): pattern is '<backup_type>-backup-*', or    *)
(* '*-backup-*' without a backup_type                                      *)
Glob(f, cat) ==
    {q \in Children(f, ConfigDir) :
        Base(q).kind = "archive" /\ (cat = NoCategory \/ Base(q).b = cat)}

(* sorted(paths, reverse=True) *)
RECURSIVE SortedReverse(_)
SortedReverse(S) ==
    IF S = {} THEN << >>
    ELSE LET m == CHOOSE x \in S : \A y \in S \ {x} : PathLess(y, x)
         IN  <<m>> \o SortedReverse(S \ {m})

ListBackups(f, cat) ==
    IF ~Exists(f, ConfigDir) THEN << >> ELSE SortedReverse(Glob(f, cat))

ListCategories == {"shell", "zsh-shell", "bash-shell"}

(* what ~/.config may hold: archives of three categories, one of them with   *)
(* a suffix that is no timestamp                                           *)
ListArchives ==
    {Arch("shell", <<0, 9>>), Arch("shell", <<0, 10>>), Arch("shell", <<1, 0>>),
     Arch("shell", <<0, SecPerMin + 1>>),
     Arch("zsh-shell", <<0, 0>>), Arch("zsh-shell", <<1, 2>>),
     Arch("bash-shell", <<0, SecPerMin - 1>>), Arch("bash-shell", <<1, 0>>)}

HomeList(S) ==
    [p \in {Home, ConfigDir} \cup {ConfigDir \o <<n>> : n \in S}
           \cup {ConfigDir \o <<n, Zshrc>> : n \in S} |->
        IF Len(p) <= 2 THEN Dir ELSE File("A")]

InitList ==
    /\ fs \in {HomeList(S) : S \in SUBSET ListArchives}
                \cup {InitHome, HomeWith(ShellArchives \cup ForeignEntries)}
    /\ now = 0
    /\ managers = {}
    /\ rs = Idle
    /\ ret = NoRet
    /\ pre = NoPre
    /\ budget = MaxOps
    /\ inst = NoInst
    /\ proto = NoProto

(* hybrid BackupManager().list_backups(backup_type) *)
ListBackupsCall ==
    /\ \E cat \in ListCategories \cup {NoCategory} :
          LET l == ListBackups(fs, cat)
          IN  ret' = [NoRet EXCEPT !.op = "list_backups", !.cat = cat,
                                   !.names = [i \in 1..Len(l) |-> Base(l[i])]]
    /\ pre' = [pre EXCEPT !.c = fs]
    /\ UNCHANGED <<fs, now, managers, rs, budget, inst, proto>>

(* prototype BackupManager().list_backups(); iterdir() lists in any order *)
ProtoListCall ==
    /\ \E listing \in Orders(Listed(fs)) :
          proto' = [NoProto EXCEPT !.op = "list_backups", !.listed = SortBackups(listing)]
    /\ pre' = [pre EXCEPT !.c = fs]
    /\ UNCHANGED <<fs, now, managers, rs, ret, budget, inst>>

NextList ==
    \/ ListBackupsCall
    \/ ProtoListCall

SpecList == InitList /\ [][NextList]_vars

(* the entries of ~/.config whose name is that of an archive of cat *)
Named(f, cat) == {Base(q) : q \in Glob(f, cat)}

Parseable(n) == Strptime(n.ts).ok

(* newest first: strictly decreasing parsed timestamps *)
NewestFirst(names) ==
    \A i, j \in 1..Len(names) : i < j => Stamp(<<names[i]>>) > Stamp(<<names[j]>>)

(* C11: when every entry named <category>-backup-<timestamp> is a directory   *)
(* with a parseable timestamp, list_backups(category) returns exactly those  *)
(* entries, newest first; so does the list_backups of the prototype for its *)
(* one category.                                                           *)
C11_NewestFirst ==
    /\ (ret.op = "list_backups" /\ ret.cat # NoCategory
            /\ \A n \in Named(fs, ret.cat) : Parseable(n) /\ IsDir(fs, ConfigDir \o <<n>>)) =>
          /\ Range(ret.names) = Named(fs, ret.cat)
          /\ Len(ret.names) = Cardinality(Named(fs, ret.cat))
          /\ NewestFirst(ret.names)
    /\ proto.op = "list_backups" =>
          /\ Range(proto.listed) = Listed(fs)
          /\ Len(proto.listed) = Cardinality(Listed(fs))
          /\ NewestFirst([i \in 1..Len(proto.listed) |-> Base(proto.listed[i])])

(* three archives of one category whose names differ in the tens and the     *)
(* units of the seconds and in the minutes, listed by both implementations  *)
C11_Witness ==
    /\ ret.op = "list_backups"
    /\ ret.cat = "shell"
    /\ ret.names = <<Arch("shell", <<1, 0>>), Arch("shell", <<0, 10>>), Arch("shell", <<0, 9>>)>>
    /\ proto.op = "list_backups"
    /\ Len(proto.listed) = 3

(* C12: in the result of list_backups() without a category, an archive with  *)
(* a later timestamp comes before every archive with an earlier one,        *)
(* whatever their categories.                                              *)
C12_AllCategoriesNewestFirst ==
    (ret.op = "list_backups" /\ ret.cat = NoCategory) =>
        \A i, j \in 1..Len(ret.names) :
            ( /\ Parseable(ret.names[i]) /\ Parseable(ret.names[j])
              /\ Stamp(<<ret.names[i]>>) > Stamp(<<ret.names[j]>>) ) => i < j

(* C13: no entry whose suffix does not parse as a timestamp is in the        *)
(* result of list_backups, and the call does not raise.                    *)
C13_UnparsableExcluded ==
    ret.op = "list_backups" =>
        /\ ~ret.raised
        /\ \A i \in 1..Len(ret.names) : Parseable(ret.names[i])

(* the same program explored one operation deeper *)
InitDeep ==
    /\ fs \in InitHomes
    /\ now = 0
    /\ managers = {}
    /\ rs = Idle
    /\ ret = NoRet
    /\ pre = NoPre
    /\ budget = MaxOps + 1
    /\ inst = NoInst
    /\ proto = NoProto

SpecDeep == InitDeep /\ [][Next]_vars

----------------------------------------------------------------------------
(* create_backup of two paths that end in the same name, in a home that has *)
(* both: ~/.zshrc and ~/.config/zsh/.zshrc                                  *)

ZshDir == N("zsh")

SameNameRequest == <<<<Zshrc>>, <<Config, ZshDir, Zshrc>>>>

SameNameHome ==
    Put(Put(Put(InitHome, ConfigDir, Dir), ConfigDir \o <<ZshDir>>, Dir),
        ConfigDir \o <<ZshDir, Zshrc>>, File("B"))

InitSame ==
    /\ fs = SameNameHome
    /\ now = 0
    /\ managers = {}
    /\ rs = Idle
    /\ ret = NoRet
    /\ pre = NoPre
    /\ budget = MaxOps
    /\ inst = NoInst
    /\ proto = NoProto

CreateSameCall == CreateBackupFrom({SameNameRequest})

NextSame ==
    \/ Tick
    \/ NewManager
    \/ CreateBackupCall
    \/ CreateSameCall
    \/ RestoreBegin
    \/ RestoreSnapshot
    \/ RestoreReplace
    \/ RestoreEnd
    \/ EnvChange

SpecSame == InitSame /\ [][NextSame]_vars

----------------------------------------------------------------------------
(* Properties of restore_backup and create_backup *)

RestoreReturned == rs.pc = "idle" /\ ret.op = "restore_backup"
CreateReturned == ret.op = "create_backup" /\ ~ret.raised

(* every file and directory of the tree old[t] is present under s in f, a  *)
(* file possibly inside a directory that was already there (copy2)         *)
SavedUnder(old, t, f, s) ==
    \A r \in {Suffix(q, t) : q \in Under(old, t)} :
        IF IsDir(old, t \o r) THEN IsDir(f, s \o r)
        ELSE LET d == IF IsDir(f, s \o r) THEN s \o r \o <<Base(t \o r)>> ELSE s \o r
             IN  d \in DOMAIN f /\ f[d] = old[t \o r]

(* C1: after a restore that succeeded, every entry whose live target        *)
(* existed before the restore has a .pre-restore sibling whose content      *)
(* equals the content the target had when the restore began.               *)
C1_PreRestoreEqualsOld ==
    (RestoreReturned /\ ret.val) =>
        \A n \in Listing(pre.r, ret.archive) :
            Exists(pre.r, Target(n)) =>
                SubTree(fs, CurrentBackup(n)) = SubTree(pre.r, Target(n))

RoundTripMayChange(p) ==
    \/ IsPrefix(ret.archive, p)
    \/ \E n \in Range(ret.names) : IsPrefix(CurrentBackup(n), p)

(* C3: create_backup followed at once by a successful restore_backup of the *)
(* returned archive leaves every path under home as it was before the       *)
(* backup, except for the archive and a .pre-restore sibling of each         *)
(* restored entry, which exists.                                           *)
C3_RoundTrip ==
    (RestoreReturned /\ ret.val /\ ret.imm) =>
        /\ \A p \in (DOMAIN fs \cup DOMAIN pre.c) \ {ConfigDir} :
              ~RoundTripMayChange(p) =>
                  p \in DOMAIN fs /\ p \in DOMAIN pre.c /\ fs[p] = pre.c[p]
        /\ \A n \in Range(ret.names) : Exists(fs, CurrentBackup(n))

(* C4: after a successful restore the live target of every restored entry   *)
(* is the same tree as the archived entry.                                 *)
C4_TargetEqualsArchived ==
    (RestoreReturned /\ ret.val) =>
        \A n \in Range(ret.names) :
            SubTree(fs, Target(n)) = SubTree(fs, ret.archive \o <<n>>)

(* C5: a create_backup call none of whose requested paths exists returns   *)
(* None and leaves no archive directory on disk.                           *)
C5_NothingToBackUp ==
    (ret.op = "create_backup" /\ \A i \in 1..Len(ret.files) : ~Exists(pre.c, ret.files[i]))
        => (~ret.raised /\ ~ret.val /\ ~Exists(fs, ret.bdir))

(* C6: when create_backup has returned, its archive directory exists iff a  *)
(* requested path existed when the call began, and it is not empty.        *)
C6_ArchiveIffCaptured ==
    CreateReturned =>
        /\ IsDir(fs, ret.bdir) <=> (\E i \in 1..Len(ret.files) : Exists(pre.c, ret.files[i]))
        /\ IsDir(fs, ret.bdir) => Children(fs, ret.bdir) # {}

(* create_backup found nothing, removed the directory it had made and       *)
(* returned None                                                          *)
C6_Witness ==
    /\ CreateReturned
    /\ ~ret.val
    /\ IsDir(fs, ConfigDir)
    /\ ~Exists(fs, ret.bdir)

(* C8: the archive given to restore_backup is the same tree during and      *)
(* after the call as when the call began.                                  *)
C8_ArchiveUntouched ==
    LET arch == IF rs.pc # "idle" THEN rs.arch ELSE ret.archive
    IN  (rs.pc # "idle" \/ ret.op = "restore_backup") =>
            SubTree(fs, arch) = SubTree(pre.r, arch)

(* C9: after create_backup, however it ended, every requested path is the   *)
(* same tree (existence, kind, content) as when the call began.            *)
C9_SourcesUntouched ==
    ret.op = "create_backup" =>
        \A i \in 1..Len(ret.files) :
            SubTree(fs, ret.files[i]) = SubTree(pre.c, ret.files[i])

C16_ContinuesPastFailure ==
    (RestoreReturned /\ IsDir(pre.r, ret.archive)) =>
        \A n \in Listing(pre.r, ret.archive) :
            n \in Range(ret.names) \/ n \in Range(ret.failed)

(* C17: create_backup and restore_backup do not raise for a missing source   *)
(* path, a missing archive or an I/O failure of a copy or removal: an        *)
(* exception leaves create_backup only from the mkdir of the archive root    *)
(* or the write of the manifest.                                           *)
C17_NothingRaised ==
    /\ ret.op = "restore_backup" => ~ret.raised
    /\ (ret.op = "create_backup" /\ ret.raised) => ret.why \in {"mkdir", "manifest"}

(* C18: restore_backup of an existing archive reports success exactly when   *)
(* no entry failed; in particular an archive with nothing to restore is     *)
(* not reported as a failure.                                              *)
C18_SuccessIffNoError ==
    (RestoreReturned /\ IsDir(pre.r, ret.archive)) =>
        (ret.val <=> ret.failed = << >>)

(* C21: the first archive a create_backup returned is, at every later        *)
(* point, the tree (entries and manifest) it was when the call returned.   *)
C21_ArchiveImmutable ==
    pre.made.path # NoArchive => SubTree(fs, pre.made.path) = pre.made.tree

(* C28: a create_backup none of whose requested paths exists, called when    *)
(* its archive directory is already there and not empty, returns None        *)
(* without raising and leaves that directory as it was.                    *)
C28_NothingCapturedArchiveKept ==
    ( /\ ret.op = "create_backup"
      /\ \A i \in 1..Len(ret.files) : ~Exists(pre.c, ret.files[i])
      /\ IsDir(pre.c, ret.bdir)
      /\ Children(pre.c, ret.bdir) # {} ) =>
        /\ ~ret.raised
        /\ ~ret.val
        /\ SubTree(fs, ret.bdir) = SubTree(pre.c, ret.bdir)

(* the requested paths that existed when the call began, in request order *)
Captured(f, files) == SelectSeq(files, LAMBDA p : Exists(f, p))

ManifestNames(f, bdir) ==
    [i \in 1..Len(f[bdir \o <<Manifest>>].list) |-> f[bdir \o <<Manifest>>].list[i].n]

(* C22: when create_backup has returned, the manifest is in the archive root *)
(* iff a requested path existed, and it lists the base names of the          *)
(* requested paths that existed, in the order they were requested.         *)
C22_ManifestIffCaptured ==
    CreateReturned =>
        LET cap == Captured(pre.c, ret.files)
        IN  /\ IsFile(fs, ret.bdir \o <<Manifest>>) <=> cap # << >>
            /\ cap # << >> =>
                  ManifestNames(fs, ret.bdir) = [i \in 1..Len(cap) |-> Base(cap[i])]

(* of two requested paths only one existed: the manifest lists that one *)
C22_Witness ==
    /\ CreateReturned
    /\ ret.val
    /\ Len(ret.files) = 2
    /\ ManifestNames(fs, ret.bdir) = <<OhMyZsh>>

(* C23: a restore_backup of an archive that has a manifest restores only     *)
(* entries the manifest lists.                                             *)
C23_ManifestDecides ==
    (RestoreReturned /\ IsFile(pre.r, ret.archive \o <<Manifest>>)) =>
        Range(ret.names) \subseteq Range(ManifestNames(pre.r, ret.archive))

(* C24: when create_backup has returned an archive, every requested path     *)
(* that existed has an entry of its own kind directly under the archive     *)
(* root, named by its base name, a directory with every path of the source  *)
(* tree below it, and the manifest marks exactly the directories.          *)
C24_StoredUnderBaseName ==
    (CreateReturned /\ ret.val) =>
        LET cap == Captured(pre.c, ret.files)
            list == fs[ret.bdir \o <<Manifest>>].list
        IN  \A i \in 1..Len(cap) :
              LET d == ret.bdir \o <<Base(cap[i])>>
              IN  /\ \A q \in Under(pre.c, cap[i]) :
                        LET e == d \o Suffix(q, cap[i])
                        IN  e \in DOMAIN fs /\ fs[e].k = pre.c[q].k
                  /\ i <= Len(list) /\ list[i].dir = IsDir(pre.c, cap[i])

(* C25: a file that was there before the installer ran and that              *)
(* create_shell_configuration has overwritten is one of the paths            *)
(* backup_shell_configs requests for the shell.                            *)
C25_OverwrittenWasCandidate ==
    "config" \in Range(inst.steps) =>
        \A p \in Range(ConfigWrites(inst)) :
            (IsFile(inst.fs0, p) /\ IsFile(fs, p) /\ fs[p] # inst.fs0[p])
                => p \in Range(ShellConfigs(inst.shell))

(* C26: a create_backup whose category and timestamp are those of the first  *)
(* archive returned resolves to that same directory: when it returns an      *)
(* archive, the directory handed out first holds the entries this call       *)
(* captured and the manifest this call wrote.                              *)
C26_SameSecondSameArchive ==
    ( /\ pre.made.path # NoArchive
      /\ CreateReturned /\ ret.val
      /\ Base(ret.bdir) = Base(pre.made.path) ) =>
        /\ ret.archive = pre.made.path
        /\ fs[pre.made.path \o <<Manifest>>].list = ret.names
        /\ \A i \in 1..Len(ret.names) : Exists(fs, pre.made.path \o <<ret.names[i].n>>)

(* the archive handed to the first caller now holds an entry and a manifest  *)
(* written by a second call                                                *)
C26_Witness ==
    /\ pre.made.path # NoArchive
    /\ CreateReturned /\ ret.val
    /\ ret.archive = pre.made.path
    /\ pre.made.tree[<<Manifest>>].list # ret.names
    /\ \E i \in 1..Len(ret.names) : <<ret.names[i].n>> \notin DOMAIN pre.made.tree
    /\ SubTree(fs, pre.made.path) # pre.made.tree

(* C27: list_backups(category) returns only directories, only of that        *)
(* category, and every archive directory of the category that is on disk.  *)
C27_ExactlyCategoryDirs ==
    (ret.op = "list_backups" /\ ret.cat # NoCategory) =>
        /\ \A i \in 1..Len(ret.names) :
              ret.names[i].b = ret.cat /\ IsDir(fs, ConfigDir \o <<ret.names[i]>>)
        /\ \A q \in Children(fs, ConfigDir) :
              (IsDir(fs, q) /\ Base(q).kind = "archive" /\ Base(q).b = ret.cat)
                  => Base(q) \in Range(ret.names)

(* C29: a create_backup that made its archive directory and returned it has *)
(* the content of every requested path that existed in the archive, and as  *)
(* many names in the manifest as the archive has entries beside it.         *)
C29_NothingLost ==
    (CreateReturned /\ ret.val /\ ~Exists(pre.c, ret.bdir)) =>
        /\ \A i \in 1..Len(ret.files) :
              Exists(pre.c, ret.files[i]) =>
                  SavedUnder(pre.c, ret.files[i], fs, ret.bdir \o <<Base(ret.files[i])>>)
        /\ Len(fs[ret.bdir \o <<Manifest>>].list) = Cardinality(Listing(fs, ret.bdir))

====
